---- MODULE Spec2Model ----
(***************************************************************************)
(* A model of fortio/struct2env (src/env.go): the case converters, the     *)
(* value codec and the quoting routines, the serialize walker              *)
(* (StructToEnvVars), the shell renderer (ToShellWithPrefix) and the       *)
(* deserialize walker (SetFrom).                                           *)
(*                                                                         *)
(* A Go string is a sequence of one-character strings; the NUL byte is the *)
(* atom "NUL" and a line feed is the atom "\n".  A record type is a        *)
(* descriptor of what reflect reports (kind, type name, element type,      *)
(* fields with name, tag, Anonymous and exported), and a record value is   *)
(* the tuple of its field values.  A pointer is <<>> when nil and <<v>>    *)
(* when it points at v.                                                    *)
(***************************************************************************)
EXTENDS Integers, Sequences, FiniteSets, TLC

VARIABLES
    tid,      \* index in Types of the record type under test
    rec,      \* the record handed to StructToEnvVars / the prior content for SetFrom
    prefix,   \* the prefix handed to ToShellWithPrefix and SetFrom
    ser,      \* "no" | "ok" | "panic": outcome of StructToEnvVars
    kvs,      \* the []KeyValue StructToEnvVars returned
    errs,     \* the []error StructToEnvVars returned
    shell,    \* <<>> or <<text>>: the text ToShellWithPrefix returned
    skip,     \* the skipExport argument of that call
    set,      \* "no" | "ok" | "panic": outcome of SetFrom
    src,      \* "none" | "env" | "shell": what backed SetFrom's lookup
    env,      \* the lookup's content: a function from keys to values
    byPtr,    \* whether SetFrom was handed &record (TRUE) or the record by value
    prior,    \* the record's content before SetFrom
    dst,      \* the record's content after SetFrom
    lookups,  \* the calls SetFrom made to the lookup, in order
    setErrs,  \* the []error SetFrom returned
    fn,       \* "none" or the name of the string function that was called
    arg,      \* the string it was called with
    ret       \* what it returned

vars == <<tid, rec, prefix, ser, kvs, errs, shell, skip,
          set, src, env, byPtr, prior, dst, lookups, setErrs, fn, arg, ret>>

-----------------------------------------------------------------------------
(* Strings *)

LowerRunes == <<"a","b","c","d","e","f","g","h","i","j","k","l","m",
                "n","o","p","q","r","s","t","u","v","w","x","y","z">>
UpperRunes == <<"A","B","C","D","E","F","G","H","I","J","K","L","M",
                "N","O","P","Q","R","S","T","U","V","W","X","Y","Z">>
DigitRunes == <<"0","1","2","3","4","5","6","7","8","9">>

Range(s) == {s[i] : i \in DOMAIN s}

IndexOf(s, c) == CHOOSE i \in DOMAIN s : s[i] = c

IsUpper(c) == c \in Range(UpperRunes)
IsLower(c) == c \in Range(LowerRunes)
IsDigit(c) == c \in Range(DigitRunes)

ToUpperRune(c) == IF IsLower(c) THEN UpperRunes[IndexOf(LowerRunes, c)] ELSE c
ToLowerRune(c) == IF IsUpper(c) THEN LowerRunes[IndexOf(UpperRunes, c)] ELSE c

ToUpper(s) == [i \in DOMAIN s |-> ToUpperRune(s[i])]
ToLower(s) == [i \in DOMAIN s |-> ToLowerRune(s[i])]

RECURSIVE Join(_, _)
Join(words, sep) ==
    IF words = <<>> THEN <<>>
    ELSE IF Len(words) = 1 THEN words[1]
    ELSE words[1] \o sep \o Join(Tail(words), sep)

RECURSIVE Concat(_)
Concat(ss) == IF ss = <<>> THEN <<>> ELSE ss[1] \o Concat(Tail(ss))

ContainsRune(s, c) == \E i \in DOMAIN s : s[i] = c

HasPrefix(s, p) == Len(s) >= Len(p) /\ SubSeq(s, 1, Len(p)) = p
HasSuffix(s, p) == Len(s) >= Len(p) /\ SubSeq(s, Len(s) - Len(p) + 1, Len(s)) = p

RECURSIVE ReplaceAll(_, _, _)
ReplaceAll(s, c, by) ==
    IF s = <<>> THEN <<>>
    ELSE (IF s[1] = c THEN by ELSE <<s[1]>>) \o ReplaceAll(Tail(s), c, by)

-----------------------------------------------------------------------------
(* Word splitter and case converters *)

\* A string is its bytes.  A byte below 0x80 is written as its character and
\* is the rune of that character; the bytes of the model at or above 0x80
\* are those of the encoding of U+FFFD, each of which alone is no UTF-8.
RuneError == "U+FFFD"
RuneErrorBytes == <<"xEF", "xBF", "xBD">>

\* []rune(input): the encoding of a rune is that rune, and a byte that starts
\* no encoding is U+FFFD, one byte consumed.
RECURSIVE Runes(_)
Runes(input) ==
    IF input = <<>> THEN <<>>
    ELSE IF HasPrefix(input, RuneErrorBytes)
    THEN <<RuneError>> \o Runes(SubSeq(input, Len(RuneErrorBytes) + 1, Len(input)))
    ELSE IF input[1] \in Range(RuneErrorBytes)
    THEN <<RuneError>> \o Runes(Tail(input))
    ELSE <<input[1]>> \o Runes(Tail(input))

\* What buffer.WriteRune(r) appends: the encoding of r.
WriteRune(r) == IF r = RuneError THEN RuneErrorBytes ELSE <<r>>

\* The loop of SplitByCase cutting only after a lower-case letter.
RECURSIVE SplitLoopAfterLower(_, _, _, _)
SplitLoopAfterLower(runes, i, words, buffer) ==
    IF i > Len(runes) THEN Append(words, buffer)
    ELSE IF i > 1 /\ IsUpper(runes[i]) /\ IsLower(runes[i - 1])
    THEN SplitLoopAfterLower(runes, i + 1, Append(words, buffer), WriteRune(runes[i]))
    ELSE SplitLoopAfterLower(runes, i + 1, words, buffer \o WriteRune(runes[i]))

\* The loop of SplitByCase writing a rune only where it does not cut.
RECURSIVE SplitLoopDropsCutRune(_, _, _, _)
SplitLoopDropsCutRune(runes, i, words, buffer) ==
    IF i > Len(runes) THEN Append(words, buffer)
    ELSE IF /\ i > 1
            /\ IsUpper(runes[i])
            /\ \/ (i < Len(runes) /\ IsLower(runes[i + 1]))
               \/ IsLower(runes[i - 1])
    THEN SplitLoopDropsCutRune(runes, i + 1, Append(words, buffer), <<>>)
    ELSE SplitLoopDropsCutRune(runes, i + 1, words, buffer \o WriteRune(runes[i]))

\* The loop of SplitByCase: runes are indexed from 1 here, from 0 in the source.
RECURSIVE SplitLoop(_, _, _, _)
SplitLoop(runes, i, words, buffer) ==
    IF i > Len(runes) THEN Append(words, buffer)
    ELSE LET first == (i = 1)
             last  == (i = Len(runes))
             cut   == /\ ~first
                      /\ IsUpper(runes[i])
                      /\ \/ (~last /\ IsLower(runes[i + 1]))
                         \/ IsLower(runes[i - 1])
         IN  IF cut
             THEN SplitLoop(runes, i + 1, Append(words, buffer), WriteRune(runes[i]))
             ELSE SplitLoop(runes, i + 1, words, buffer \o WriteRune(runes[i]))

SplitByCase(input) ==
    IF input = <<>> THEN <<>> ELSE SplitLoop(Runes(input), 1, <<>>, <<>>)

CamelCaseToUpperSnakeCase(s) ==
    IF s = <<>> THEN <<>> ELSE ToUpper(Join(SplitByCase(s), <<"_">>))

CamelCaseToLowerSnakeCase(s) ==
    IF s = <<>> THEN <<>> ELSE ToLower(Join(SplitByCase(s), <<"_">>))

\* The kebab converter joining the words with "_" as the snake converters do.
CamelCaseToLowerKebabCaseUnderscore(s) ==
    IF s = <<>> THEN <<>> ELSE ToLower(Join(SplitByCase(s), <<"_">>))

CamelCaseToLowerKebabCase(s) ==
    IF s = <<>> THEN <<>> ELSE ToLower(Join(SplitByCase(s), <<"-">>))

-----------------------------------------------------------------------------
(* Quoting *)

\* A result with an error: err is <<>> (nil) or <<message>>.
NoErr == <<>>
Err(msg) == <<msg>>

\* ShellQuote writing a quote as \' without leaving the quoted region.
ShellQuoteBackslash(input) ==
    IF ContainsRune(input, "NUL")
    THEN [s |-> <<>>, err |-> Err("should not contain NUL")]
    ELSE [s |-> <<"'">> \o ReplaceAll(input, "'", <<"\\", "'">>) \o <<"'">>,
          err |-> NoErr]

ShellQuote(input) ==
    IF ContainsRune(input, "NUL")
    THEN [s |-> <<>>, err |-> Err("should not contain NUL")]
    ELSE [s |-> <<"'">> \o ReplaceAll(input, "'", <<"'", "\\", "'", "'">>) \o <<"'">>,
          err |-> NoErr]

\* strconv.Quote on the characters of the model: the quote and the backslash
\* get a backslash, a line feed becomes \n and NUL becomes \x00.
YamlQuoteRune(c) ==
    CASE c = "\"" -> <<"\\", "\"">>
      [] c = "\\" -> <<"\\", "\\">>
      [] c = "\n" -> <<"\\", "n">>
      [] c = "NUL" -> <<"\\", "x", "0", "0">>
      [] OTHER -> <<c>>

YamlQuote(input) ==
    <<"\"">> \o Concat([i \in DOMAIN input |-> YamlQuoteRune(input[i])]) \o <<"\"">>

-----------------------------------------------------------------------------
(* Types and values, as reflect reports them *)

\* A type: its reflect.Kind, its name ("" for an unnamed or predeclared type),
\* its element type (<<>> when it has none) and its fields (of a struct).
Ty(kind, name, elem, fields) ==
    [kind |-> kind, name |-> name, elem |-> elem, fields |-> fields]

TString   == Ty("String", "", <<>>, <<>>)
TBool     == Ty("Bool", "", <<>>, <<>>)
TInt      == Ty("Int", "", <<>>, <<>>)
TInt8     == Ty("Int8", "", <<>>, <<>>)
TUint8    == Ty("Uint8", "", <<>>, <<>>)
TFloat64  == Ty("Float64", "", <<>>, <<>>)
TDuration == Ty("Int64", "time.Duration", <<>>, <<>>)
TTime     == Ty("Struct", "time.Time", <<>>, <<>>)
TBytes    == Ty("Slice", "", <<TUint8>>, <<>>)
TStrMap   == Ty("Map", "", <<TString>>, <<>>)
\* [2]uint8, map[string]uint8 (Elem is the type of the values) and []string
TByteArray == Ty("Array", "", <<TUint8>>, <<>>)
TByteMap   == Ty("Map", "", <<TUint8>>, <<>>)
TStrings   == Ty("Slice", "", <<TString>>, <<>>)
TPtr(t)   == Ty("Ptr", "", <<t>>, <<>>)
TStruct(name, fields) == Ty("Struct", name, <<>>, fields)

\* A struct field: reflect.StructField's Name, Tag.Get("env"), Anonymous, and
\* whether the field is exported (PkgPath = "").
Fld(name, tag, anon, exp, typ) ==
    [name |-> name, tag |-> tag, anon |-> anon, exp |-> exp, typ |-> typ]

Elem(t) == t.elem[1]

IsIntKind(k) == k \in {"Int", "Int8", "Int16", "Int32", "Int64"}
IsFloatKind(k) == k \in {"Float32", "Float64"}

\* reflect.Type.Bits
Bits(t) ==
    CASE t.kind \in {"Int8", "Uint8"} -> 8
      [] t.kind \in {"Int16", "Uint16"} -> 16
      [] t.kind \in {"Int32", "Uint32", "Float32"} -> 32
      [] OTHER -> 64

\* A point in time: a day of the model ("zero" is January 1 of year 1, "d1" is
\* 1998-11-05 at 14:30 UTC), the second within that minute and the nanosecond.
TimeVal(day, sec, nsec) == [day |-> day, sec |-> sec, nsec |-> nsec]

RECURSIVE Zero(_)
Zero(t) ==
    CASE t.kind = "String" -> <<>>
      [] t.kind = "Bool" -> FALSE
      [] t.kind = "Ptr" -> <<>>
      [] t.kind \in {"Slice", "Map"} -> <<>>
      [] t.kind = "Array" -> <<0, 0>>
      [] t.kind = "Struct" /\ t.name = "time.Time" -> TimeVal("zero", 0, 0)
      [] t.kind = "Struct" -> [i \in DOMAIN t.fields |-> Zero(t.fields[i].typ)]
      [] OTHER -> 0

-----------------------------------------------------------------------------
(* Numbers, instants and bytes as text *)

RECURSIVE FormatNat(_)
FormatNat(n) ==
    IF n < 10 THEN <<DigitRunes[n + 1]>>
    ELSE Append(FormatNat(n \div 10), DigitRunes[(n % 10) + 1])

\* fmt.Sprint of an integer
FormatInt(n) == IF n < 0 THEN <<"-">> \o FormatNat(-n) ELSE FormatNat(n)

TwoDigits(n) == <<DigitRunes[(n \div 10) + 1], DigitRunes[(n % 10) + 1]>>

RECURSIVE TrimZeros(_)
TrimZeros(s) ==
    IF s # <<>> /\ s[Len(s)] = "0" THEN TrimZeros(SubSeq(s, 1, Len(s) - 1)) ELSE s

RECURSIVE PadLeft(_, _)
PadLeft(s, n) == IF Len(s) >= n THEN s ELSE PadLeft(<<"0">> \o s, n)

RECURSIVE Pow10(_)
Pow10(n) == IF n = 0 THEN 1 ELSE 10 * Pow10(n - 1)

\* The shortest decimal text of the number v / 10^digits (%g and %v of a float
\* whose exponent lies in -4..5, so that no exponent is printed).
FormatDecimal(v, digits) ==
    LET a    == IF v < 0 THEN -v ELSE v
        frac == TrimZeros(PadLeft(FormatNat(a % Pow10(digits)), digits))
    IN  (IF v < 0 THEN <<"-">> ELSE <<>>)
        \o FormatNat(a \div Pow10(digits))
        \o (IF frac = <<>> THEN <<>> ELSE <<".">> \o frac)

\* A float64 is the number of hundredths it holds: the floats of the model are
\* the multiples of 0.01, each standing for the float64 nearest to it, on which
\* strconv.ParseFloat and the shortest %v formatting are inverse.
FormatFloat(f) == FormatDecimal(f, 2)

\* time.Second, in nanoseconds: a Duration is its count of nanoseconds.
Second == 1000000000

\* fmt.Sprintf("%g", d.Seconds())
FormatSeconds(d) == FormatDecimal(d, 9)

AllDigits(s) == s # <<>> /\ \A i \in DOMAIN s : IsDigit(s[i])

RECURSIVE DigitsVal(_)
DigitsVal(s) ==
    IF s = <<>> THEN 0
    ELSE 10 * DigitsVal(SubSeq(s, 1, Len(s) - 1)) + (IndexOf(DigitRunes, s[Len(s)]) - 1)

StripSign(s) == IF s # <<>> /\ s[1] \in {"+", "-"} THEN Tail(s) ELSE s
IsNeg(s) == s # <<>> /\ s[1] = "-"

\* The bounds of a signed integer of the given width; the numbers of the model
\* stay below 2^31, inside every width above 16.
InIntRange(n, bits) ==
    bits > 16 \/ (-(2 ^ (bits - 1)) <= n /\ n <= 2 ^ (bits - 1) - 1)

\* strconv.ParseInt(s, 10, bits)
ParseInt(s, bits) ==
    LET body == StripSign(s)
        n    == IF IsNeg(s) THEN -DigitsVal(body) ELSE DigitsVal(body)
    IN  IF ~AllDigits(body) THEN [ok |-> FALSE, v |-> 0]
        ELSE IF ~InIntRange(n, bits) THEN [ok |-> FALSE, v |-> 0]
        ELSE [ok |-> TRUE, v |-> n]

\* strconv.ParseFloat on plain decimal text (sign, digits, a point, digits),
\* giving the value times 10^digits with what lies beyond cut off: the texts of
\* the model have no exponent and no more fraction digits than the caller keeps.
ParseDecimal(s, digits) ==
    LET body  == StripSign(s)
        dot   == IF ContainsRune(body, ".") THEN IndexOf(body, ".") ELSE Len(body) + 1
        ip    == SubSeq(body, 1, dot - 1)
        fp    == SubSeq(body, dot + 1, Len(body))
        fpN   == SubSeq(fp \o [i \in 1..digits |-> "0"], 1, digits)
        wellF == /\ (ip = <<>> \/ AllDigits(ip))
                 /\ (fp = <<>> \/ AllDigits(fp))
                 /\ (ip # <<>> \/ fp # <<>>)
        mag   == DigitsVal(ip) * Pow10(digits) + DigitsVal(fpN)
    IN  IF ~wellF THEN [ok |-> FALSE, v |-> 0]
        ELSE [ok |-> TRUE, v |-> IF IsNeg(s) THEN -mag ELSE mag]

\* strconv.ParseBool
ParseBool(s) ==
    IF s \in {<<"1">>, <<"t">>, <<"T">>, <<"T","R","U","E">>,
              <<"t","r","u","e">>, <<"T","r","u","e">>}
    THEN [ok |-> TRUE, v |-> TRUE]
    ELSE IF s \in {<<"0">>, <<"f">>, <<"F">>, <<"F","A","L","S","E">>,
                   <<"f","a","l","s","e">>, <<"F","a","l","s","e">>}
    THEN [ok |-> TRUE, v |-> FALSE]
    ELSE [ok |-> FALSE, v |-> FALSE]

FormatBool(b) == IF b THEN <<"t","r","u","e">> ELSE <<"f","a","l","s","e">>

\* The date and minute of a day of the model, as RFC 3339 writes them.
DayText(day) ==
    IF day = "zero"
    THEN <<"0","0","0","1","-","0","1","-","0","1","T","0","0",":","0","0",":">>
    ELSE <<"1","9","9","8","-","1","1","-","0","5","T","1","4",":","3","0",":">>

\* t.Format(time.RFC3339) of a UTC instant: the layout has no fraction of a second.
FormatRFC3339(t) == DayText(t.day) \o TwoDigits(t.sec) \o <<"Z">>

\* time.Parse(time.RFC3339, s) on the instants of the model.
ParseRFC3339(s) ==
    LET day == IF HasPrefix(s, DayText("zero")) THEN "zero" ELSE "d1"
        n   == Len(DayText(day))
        ss  == SubSeq(s, n + 1, n + 2)
    IN  IF /\ HasPrefix(s, DayText(day))
           /\ Len(s) = n + 3
           /\ AllDigits(ss)
           /\ DigitsVal(ss) < 60
           /\ s[n + 3] = "Z"
        THEN [ok |-> TRUE, v |-> TimeVal(day, DigitsVal(ss), 0)]
        ELSE [ok |-> FALSE, v |-> TimeVal("zero", 0, 0)]

\* Time.String(): what fmt.Sprint prints for a time.Time.
TimeString(t) ==
    LET d == DayText(t.day)
    IN  SubSeq(d, 1, 10) \o <<" ">> \o SubSeq(d, 12, Len(d)) \o TwoDigits(t.sec)
        \o (IF t.nsec = 0 THEN <<>>
            ELSE <<".">> \o TrimZeros(PadLeft(FormatNat(t.nsec), 9)))
        \o <<" ","+","0","0","0","0"," ","U","T","C">>

B64Runes == UpperRunes \o LowerRunes \o DigitRunes \o <<"+", "/">>

B64Rune(n) == B64Runes[n + 1]

\* base64.StdEncoding.EncodeToString
RECURSIVE EncodeToString(_)
EncodeToString(b) ==
    IF b = <<>> THEN <<>>
    ELSE IF Len(b) = 1
    THEN <<B64Rune(b[1] \div 4), B64Rune((b[1] % 4) * 16), "=", "=">>
    ELSE IF Len(b) = 2
    THEN <<B64Rune(b[1] \div 4), B64Rune((b[1] % 4) * 16 + b[2] \div 16),
           B64Rune((b[2] % 16) * 4), "=">>
    ELSE <<B64Rune(b[1] \div 4), B64Rune((b[1] % 4) * 16 + b[2] \div 16),
           B64Rune((b[2] % 16) * 4 + b[3] \div 64), B64Rune(b[3] % 64)>>
         \o EncodeToString(SubSeq(b, 4, Len(b)))

IsB64(c) == c \in Range(B64Runes)
B64Val(c) == IndexOf(B64Runes, c) - 1

\* base64.StdEncoding.DecodeString on text without line breaks: the quanta are
\* decoded in order and, at the first corrupt one, the bytes decoded so far are
\* returned with the error.
RECURSIVE DecodeLoop(_, _)
DecodeLoop(s, out) ==
    IF s = <<>> THEN [data |-> out, ok |-> TRUE]
    ELSE IF Len(s) < 4 \/ ~IsB64(s[1]) \/ ~IsB64(s[2])
    THEN [data |-> out, ok |-> FALSE]
    ELSE LET a == B64Val(s[1])
             b == B64Val(s[2])
             b1 == a * 4 + b \div 16
         IN  IF s[3] = "="
             THEN IF s[4] = "=" /\ Len(s) = 4
                  THEN [data |-> Append(out, b1), ok |-> TRUE]
                  ELSE [data |-> out, ok |-> FALSE]
             ELSE IF ~IsB64(s[3]) THEN [data |-> out, ok |-> FALSE]
             ELSE LET c  == B64Val(s[3])
                      b2 == (b % 16) * 16 + c \div 4
                  IN  IF s[4] = "="
                      THEN IF Len(s) = 4
                           THEN [data |-> out \o <<b1, b2>>, ok |-> TRUE]
                           ELSE [data |-> out, ok |-> FALSE]
                      ELSE IF ~IsB64(s[4]) THEN [data |-> out, ok |-> FALSE]
                      ELSE DecodeLoop(SubSeq(s, 5, Len(s)),
                                      out \o <<b1, b2, (c % 4) * 64 + B64Val(s[4])>>)

DecodeString(s) == DecodeLoop(s, <<>>)

-----------------------------------------------------------------------------
(* Value codec: serialize *)

\* An entry of the result list.  "at" is the model's bookkeeping: the path (the
\* field indices from the root record) of the field the entry was made for.
KeyValue(key, at) ==
    [Key |-> key, ShellQuotedVal |-> <<>>, YamlQuotedVal |-> <<>>, at |-> at]

\* An error of either walker, with the path of the field it was recorded for.
ErrorAt(msg, at) == [msg |-> msg, at |-> at]

\* fmt.Sprint of a value that is no bool, []byte, string or time.Duration:
\* numbers in base 10, a named string as it is, a time.Time by its String
\* method, a struct as {f1 f2 ...}, an empty map as map[], a nil pointer inside
\* a struct as <nil>.
RECURSIVE Sprint(_, _)
Sprint(t, v) ==
    CASE t.kind = "String" -> v
      [] t.kind = "Bool" -> FormatBool(v)
      [] IsFloatKind(t.kind) -> FormatFloat(v)
      [] t.kind = "Struct" /\ t.name = "time.Time" -> TimeString(v)
      [] t.kind = "Struct" ->
            <<"{">> \o Join([i \in DOMAIN t.fields |-> Sprint(t.fields[i].typ, v[i])],
                             <<" ">>) \o <<"}">>
      [] t.kind = "Map" -> <<"m","a","p","[","]">>
      [] t.kind \in {"Array", "Slice"} ->
            <<"[">> \o Join([i \in DOMAIN v |-> Sprint(Elem(t), v[i])], <<" ">>) \o <<"]">>
      [] t.kind = "Ptr" -> <<"<","n","i","l",">">>
      [] OTHER -> FormatInt(v)

IsByteSlice(t) == t.kind = "Slice" /\ t.name = "" /\ Elem(t) = TUint8

\* The two quoted values of an entry and the error of a call of ShellQuote.
Quoted(result, q, yaml) ==
    [res |-> [result EXCEPT !.ShellQuotedVal = q.s, !.YamlQuotedVal = yaml],
     err |-> q.err]

\* The same text for the shell and for YAML.
QuotedBoth(result, q) == Quoted(result, q, q.s)

Unquoted(result, str) == Quoted(result, [s |-> str, err |-> NoErr], str)

SerializeDefault(result, str) == Quoted(result, ShellQuote(str), YamlQuote(str))

\* SerializeValue: the type switch is on the dynamic type, so a named bool or
\* a named string takes the default case.
SerializeValue(result, t, v) ==
    CASE t = TBool -> Unquoted(result, FormatBool(v))
      [] IsByteSlice(t) -> QuotedBoth(result, ShellQuote(EncodeToString(v)))
      [] t = TString -> Quoted(result, ShellQuote(v), YamlQuote(v))
      [] t = TDuration -> Unquoted(result, FormatSeconds(v))
      [] OTHER -> SerializeDefault(result, Sprint(t, v))

-----------------------------------------------------------------------------
(* Tree walker: serialize *)

\* The exclusion test comparing with "_" where the tag is "-".
IsExcludedUnderscore(tag) == tag = <<"_">>

\* tag == "-"
IsExcluded(tag) == tag = <<"-">>

\* The key segment of a field: its env tag or, without one, its name in
\* UPPER_SNAKE_CASE.
TagOf(f) == IF f.tag = <<>> THEN CamelCaseToUpperSnakeCase(f.name) ELSE f.tag

\* res := KeyValue{Key: prefix + tag}
FieldKey(pfx, tag) == pfx \o tag

\* The prefix handed to the recursion into an anonymous field.
AnonymousPrefix(pfx) == <<>>

\* The prefix handed to the recursion into a field of struct kind.
NestedPrefix(pfx, tag) == tag \o <<"_">>

\* The nil pointer left as the empty entry, YamlQuotedVal not set.
NilPointerUnmarked(res) == res

\* The nil pointer: only the YAML value is set.
NilPointer(res) == [res EXCEPT !.YamlQuotedVal = <<"n","u","l","l">>]

\* The accumulators threaded through the recursion, and whether a panic ended it.
SerAcc(envVars, allErrors, panicked) ==
    [envVars |-> envVars, allErrors |-> allErrors, panicked |-> panicked]

Panicked(acc) == [acc EXCEPT !.panicked = TRUE]

AddError(acc, msg, at) == [acc EXCEPT !.allErrors = Append(@, ErrorAt(msg, at))]

\* The loop body ending as the time.Time branch does: on an error the entry is
\* left out.
AppendResultOnSuccess(acc, res, err, at) ==
    IF err # NoErr THEN [acc EXCEPT !.allErrors = Append(@, ErrorAt(err[1], at))]
    ELSE [acc EXCEPT !.envVars = Append(@, res)]

\* The end of the loop body: the entry is appended, and the error if there is one.
AppendResult(acc, res, err, at) ==
    [acc EXCEPT !.envVars = Append(@, res),
                !.allErrors = IF err # NoErr THEN Append(@, ErrorAt(err[1], at)) ELSE @]

\* The time.Time branch: the entry is appended only when there is no error.
AppendTime(acc, res, err, at) ==
    IF err # NoErr THEN AddError(acc, err[1], at)
    ELSE [acc EXCEPT !.envVars = Append(@, res)]

\* r is what SerializeValue made of the entry.
AppendSerialized(acc, r, at) == AppendResult(acc, r.res, r.err, at)
AppendSerializedTime(acc, r, at) == AppendTime(acc, r.res, r.err, at)

RECURSIVE structToEnvVars(_, _, _, _, _)
RECURSIVE serFields(_, _, _, _, _, _)

\* The loop body once the key is known: f is the field, fv its value, p its
\* path and res the entry with its key.  Value.Interface() panics on a value
\* obtained from an unexported field.
serKeyed(acc, pfx, f, fv, p, tag, res) ==
    IF f.typ = TTime
    THEN IF ~f.exp THEN Panicked(acc)
         ELSE AppendSerializedTime(acc, SerializeValue(res, TString, FormatRFC3339(fv)), p)
    ELSE CASE f.typ.kind = "Ptr" ->
                IF fv = <<>> THEN AppendResult(acc, NilPointer(res), NoErr, p)
                ELSE IF ~f.exp THEN Panicked(acc)
                ELSE AppendSerialized(acc, SerializeValue(res, Elem(f.typ), fv[1]), p)
           [] f.typ.kind \in {"Map", "Array", "Chan", "Slice"} ->
                IF Elem(f.typ).kind # "Uint8" THEN acc
                ELSE IF ~f.exp THEN Panicked(acc)
                ELSE AppendSerialized(acc, SerializeValue(res, f.typ, fv), p)
           [] f.typ.kind = "Struct" ->
                IF ~f.exp THEN Panicked(acc)
                ELSE structToEnvVars(acc, NestedPrefix(pfx, tag), f.typ, fv, p)
           [] OTHER ->
                IF ~f.exp THEN AppendResult(acc, res, Err("can't interface"), p)
                ELSE AppendSerialized(acc, SerializeValue(res, f.typ, fv), p)

\* One iteration of the loop over the fields.
serField(acc, pfx, f, fv, p) ==
    IF IsExcluded(f.tag) THEN acc
    ELSE IF f.anon
    THEN IF ~f.exp THEN Panicked(acc)
         ELSE structToEnvVars(acc, AnonymousPrefix(pfx), f.typ, fv, p)
    ELSE serKeyed(acc, pfx, f, fv, p, TagOf(f), KeyValue(FieldKey(pfx, TagOf(f)), p))

serFields(acc, pfx, t, v, at, i) ==
    IF acc.panicked \/ i > Len(t.fields) THEN acc
    ELSE serFields(serField(acc, pfx, t.fields[i], v[i], Append(at, i)),
                   pfx, t, v, at, i + 1)

\* reflect.ValueOf(s).Kind() once a pointer is followed: a nil pointer has the
\* invalid kind.
KindBehind(t, v) ==
    IF t.kind # "Ptr" THEN t.kind ELSE IF v = <<>> THEN "Invalid" ELSE Elem(t).kind

\* s is the pair (t, v): a pointer is followed once, and what is no struct
\* then is the input-shape error.
structToEnvVars(acc, pfx, t, v, at) ==
    IF KindBehind(t, v) # "Struct"
    THEN AddError(acc, "unexpected kind, expected a struct", at)
    ELSE serFields(acc, pfx, IF t.kind = "Ptr" THEN Elem(t) ELSE t,
                   IF t.kind = "Ptr" THEN v[1] ELSE v, at, 1)

StructToEnvVars(t, v) == structToEnvVars(SerAcc(<<>>, <<>>, FALSE), <<>>, t, v, <<>>)

-----------------------------------------------------------------------------
(* Renderer *)

\* kv.ToShell()
ToShell(kv) == kv.Key \o <<"=">> \o kv.ShellQuotedVal

\* The renderer collecting kv.Key, without the prefix, for the export line.
ToShellBareExport(pfx, kvl, skipExport) ==
    Concat([i \in DOMAIN kvl |-> pfx \o ToShell(kvl[i]) \o <<"\n">>])
    \o (IF skipExport THEN <<>>
        ELSE <<"e","x","p","o","r","t"," ">>
             \o Join([i \in DOMAIN kvl |-> kvl[i].Key], <<" ">>)
             \o <<"\n">>)

ToShellWithPrefix(pfx, kvl, skipExport) ==
    Concat([i \in DOMAIN kvl |-> pfx \o ToShell(kvl[i]) \o <<"\n">>])
    \o (IF skipExport THEN <<>>
        ELSE <<"e","x","p","o","r","t"," ">>
             \o Join([i \in DOMAIN kvl |-> pfx \o kvl[i].Key], <<" ">>)
             \o <<"\n">>)

-----------------------------------------------------------------------------
(* Tree walker: deserialize *)

\* An EnvLookup is a function from the keys that are set to their values.
Lookup(lk, key) == IF key \in DOMAIN lk THEN <<lk[key]>> ELSE <<>>

\* A call of the lookup, with the path of the field it was made for.
LookupAt(key, found, at) == [key |-> key, found |-> found, at |-> at]

\* envName := prefix + tag
EnvName(pfx, tag) == pfx \o tag

\* The prefix handed to the recursion into a field of struct kind.
RecursePrefix(envName) == envName \o <<"_">>

\* The accumulators of setFromEnv: the errors, the lookup's calls, whether a
\* panic ended the walk, and the content of the record being set in place.
SetAcc(allErrors, calls, panicked, val) ==
    [allErrors |-> allErrors, calls |-> calls, panicked |-> panicked, val |-> val]

\* setPointer: a nil pointer is made to point at a new zero value.
setPointer(t, fv) == IF fv = <<>> THEN <<Zero(Elem(t))>> ELSE fv

\* checkEnv ignoring the lookup's found flag: a key that is not found reads as
\* the empty string, as with os.Getenv.
checkEnvGetenv(lk, envName, canSet) ==
    IF ~canSet THEN [val |-> <<>>, err |-> Err("can't set")]
    ELSE IF envName \in DOMAIN lk THEN [val |-> <<lk[envName]>>, err |-> NoErr]
    ELSE [val |-> <<<<>>>>, err |-> NoErr]

\* checkEnv: <<>> with no error when the key is not found, the value when it is
\* found and the field can be set, an error when it is found and cannot.
checkEnv(lk, envName, canSet) ==
    LET got == Lookup(lk, envName)
    IN  IF got = <<>> THEN [val |-> <<>>, err |-> NoErr]
        ELSE IF ~canSet THEN [val |-> <<>>, err |-> Err("can't set")]
        ELSE [val |-> got, err |-> NoErr]

\* What a parse gives setValue: the parsed value, or the content kept and the error.
Parsed(ev, cur, msg) ==
    IF ev.ok THEN [val |-> ev.v, err |-> NoErr] ELSE [val |-> cur, err |-> Err(msg)]

\* fieldValue.SetBytes(data) is called whether or not the decoding failed.
Decoded(d) == [val |-> d.data, err |-> IF d.ok THEN NoErr ELSE Err("illegal base64 data")]

\* setValue: fieldType is the declared type of the field, vt the type of the
\* value being set (the pointee's for a pointer field), cur its content.
setValue(fieldType, vt, cur, kind, envVal) ==
    CASE kind = "String" -> [val |-> envVal, err |-> NoErr]
      [] IsIntKind(kind) ->
            IF fieldType = TDuration
            THEN Parsed(ParseDecimal(envVal, 9), cur, "ParseFloat")
            ELSE Parsed(ParseInt(envVal, Bits(vt)), cur, "ParseInt")
      [] IsFloatKind(kind) -> Parsed(ParseDecimal(envVal, 2), cur, "ParseFloat")
      [] kind = "Bool" -> Parsed(ParseBool(envVal), cur, "ParseBool")
      [] kind = "Slice" ->
            IF Elem(vt).kind # "Uint8"
            THEN [val |-> cur, err |-> Err("unsupported slice")]
            ELSE Decoded(DecodeString(envVal))
      [] OTHER -> [val |-> cur, err |-> Err("unsupported type")]

SetError(acc, msg, at) == [acc EXCEPT !.allErrors = Append(@, ErrorAt(msg, at))]

\* The field i of the record holds x from now on, and the error, if any, is recorded.
Store(acc, i, x, err, p) ==
    [acc EXCEPT !.val[i] = x,
                !.allErrors = IF err # NoErr THEN Append(@, ErrorAt(err[1], p)) ELSE @]

\* The result r of setValue, applied to a plain field or to what a pointer points at.
StoreValue(acc, i, isPtr, r, p) == Store(acc, i, IF isPtr THEN <<r.val>> ELSE r.val, r.err, p)

\* The time.Time branch: the field is set only when the text parses.
StoreTime(acc, i, tv, p) ==
    IF tv.ok THEN [acc EXCEPT !.val[i] = tv.v] ELSE SetError(acc, "parsing time", p)

\* What follows checkEnv for a field whose value envVal was found; fv is the
\* field's content, after setPointer for a pointer field.
setFound(acc, ft, fv, i, p, envVal) ==
    IF ft = TTime THEN StoreTime(acc, i, ParseRFC3339(envVal), p)
    ELSE IF ft.kind = "Ptr"
    THEN StoreValue(acc, i, TRUE,
                    setValue(ft, Elem(ft), fv[1], Elem(ft).kind, envVal), p)
    ELSE StoreValue(acc, i, FALSE, setValue(ft, ft, fv, ft.kind, envVal), p)

\* What follows the call c of checkEnv.
afterCheck(acc, c, ft, i, p) ==
    IF c.err # NoErr THEN SetError(acc, c.err[1], p)
    ELSE IF c.val = <<>> THEN acc
    ELSE setFound(acc, ft, IF ft.kind = "Ptr" THEN setPointer(ft, acc.val[i]) ELSE acc.val[i],
                  i, p, c.val[1])

Called(acc, envName, found, p) ==
    [acc EXCEPT !.calls = Append(@, LookupAt(envName, found, p))]

\* The content of field i is what the recursion r left in the record it was given.
Recursed(acc, i, r) == [r EXCEPT !.val = [acc.val EXCEPT ![i] = r.val[1]]]

RECURSIVE setFromEnv(_, _, _, _, _)
RECURSIVE setFields(_, _, _, _, _, _, _)

\* One iteration of the loop over the fields; acc.val is the struct, addr says
\* whether it is addressable.  A field can be set when the struct is
\* addressable and the field exported; Addr().Interface() panics on an
\* unexported field.
setField(acc, lk, f, addr, p, i, envName) ==
    IF IsExcluded(f.tag) THEN acc
    ELSE IF f.typ.kind = "Struct" /\ f.typ # TTime
    THEN IF ~addr THEN SetError(acc, "cannot take the address", p)
         ELSE IF ~f.exp THEN [acc EXCEPT !.panicked = TRUE]
         ELSE Recursed(acc, i, setFromEnv([acc EXCEPT !.val = <<acc.val[i]>>], lk,
                                          RecursePrefix(envName), TPtr(f.typ), p))
    ELSE afterCheck(Called(acc, envName, envName \in DOMAIN lk, p),
                    checkEnv(lk, envName, addr /\ f.exp), f.typ, i, p)

\* The loop over the fields ending at the first error.
RECURSIVE setFieldsUntilError(_, _, _, _, _, _, _)
setFieldsUntilError(acc, lk, pfx, t, addr, at, i) ==
    IF acc.panicked \/ acc.allErrors # <<>> \/ i > Len(t.fields) THEN acc
    ELSE setFieldsUntilError(setField(acc, lk, t.fields[i], addr, Append(at, i), i,
                                      EnvName(pfx, TagOf(t.fields[i]))),
                             lk, pfx, t, addr, at, i + 1)

setFields(acc, lk, pfx, t, addr, at, i) ==
    IF acc.panicked \/ i > Len(t.fields) THEN acc
    ELSE setFields(setField(acc, lk, t.fields[i], addr, Append(at, i), i,
                            EnvName(pfx, TagOf(t.fields[i]))),
                   lk, pfx, t, addr, at, i + 1)

\* The record a pointer was followed to is the pointer's content again.
Behind(r, ptr) == IF ptr THEN [r EXCEPT !.val = <<r.val>>] ELSE r

\* setFromEnv returning without an error when it is handed no struct.
setFromEnvSilent(acc, lk, pfx, t, at) ==
    IF KindBehind(t, acc.val) # "Struct"
    THEN acc
    ELSE Behind(setFields(IF t.kind = "Ptr" THEN [acc EXCEPT !.val = acc.val[1]] ELSE acc,
                          lk, pfx, IF t.kind = "Ptr" THEN Elem(t) ELSE t,
                          t.kind = "Ptr", at, 1),
                t.kind = "Ptr")

\* s is the pair (t, acc.val); what a pointer points at is addressable.
setFromEnv(acc, lk, pfx, t, at) ==
    IF KindBehind(t, acc.val) # "Struct"
    THEN SetError(acc, "unexpected kind, expected a struct", at)
    ELSE Behind(setFields(IF t.kind = "Ptr" THEN [acc EXCEPT !.val = acc.val[1]] ELSE acc,
                          lk, pfx, IF t.kind = "Ptr" THEN Elem(t) ELSE t,
                          t.kind = "Ptr", at, 1),
                t.kind = "Ptr")

SetFrom(lk, pfx, t, v) == setFromEnv(SetAcc(<<>>, <<>>, FALSE, v), lk, pfx, t, <<>>)

-----------------------------------------------------------------------------
(* The record types and the inputs of the model *)

\* type Embedded struct { InnerA string }
Embedded ==
    TStruct("Embedded", <<Fld(<<"I","n","n","e","r","A">>, <<>>, FALSE, TRUE, TString)>>)

\* A named string type: type Label string
TLabel == Ty("String", "Label", <<>>, <<>>)

\* Plain fields, an env tag and an excluded field.
Scalars ==
    TStruct("Scalars", <<
        Fld(<<"F","o","o">>, <<>>, FALSE, TRUE, TString),
        Fld(<<"B","l","a","h">>, <<"A","_","B","L","A","H">>, FALSE, TRUE, TInt),
        Fld(<<"N","o","t","T","h","e","r","e">>, <<"-">>, FALSE, TRUE, TInt),
        Fld(<<"A","B","o","o","l">>, <<>>, FALSE, TRUE, TBool)>>)

\* Pointers and a byte slice.
Pointers ==
    TStruct("Pointers", <<
        Fld(<<"I","n","t","P","o","i","n","t","e","r">>, <<>>, FALSE, TRUE, TPtr(TInt)),
        Fld(<<"S","o","m","e","B","i","n","a","r","y">>, <<>>, FALSE, TRUE, TBytes),
        Fld(<<"S","P">>, <<>>, FALSE, TRUE, TPtr(TString))>>)

\* An embedded record and a nested one, as in the tests' FooConfig.
Embedding ==
    TStruct("Embedding", <<
        Fld(<<"E","m","b","e","d","d","e","d">>, <<>>, TRUE, TRUE, Embedded),
        Fld(<<"R","e","c","u","r","s","e","H","e","r","e">>, <<>>, FALSE, TRUE, Embedded)>>)

\* A record nested in a nested record, with an embedded record at depth one.
Middle ==
    TStruct("Middle", <<
        Fld(<<"E","m","b","e","d","d","e","d">>, <<>>, TRUE, TRUE, Embedded),
        Fld(<<"L","e","a","f">>, <<>>, FALSE, TRUE, Embedded)>>)

Deep ==
    TStruct("Deep", <<
        Fld(<<"M","i","d">>, <<>>, FALSE, TRUE, Middle),
        Fld(<<"H","T","T","P","S","e","r","v","e","r">>, <<>>, FALSE, TRUE, TLabel)>>)

\* An instant, a duration and a float.
Times ==
    TStruct("Times", <<
        Fld(<<"T","S">>, <<>>, FALSE, TRUE, TTime),
        Fld(<<"D","u","r">>, <<>>, FALSE, TRUE, TDuration),
        Fld(<<"F","l">>, <<>>, FALSE, TRUE, TFloat64)>>)

\* Excluded embedded and nested records, and a map, which is not supported.
Excluding ==
    TStruct("Excluding", <<
        Fld(<<"H","i","d","d","e","n">>, <<"-">>, TRUE, TRUE, Embedded),
        Fld(<<"S","k","i","p">>, <<"-">>, FALSE, TRUE, Embedded),
        Fld(<<"W","o","n","t","S","h","o","w">>, <<>>, FALSE, TRUE, TStrMap),
        Fld(<<"B","a","r">>, <<>>, FALSE, TRUE, TString)>>)

\* An unexported nested record between two exported fields.
Hidden ==
    TStruct("Hidden", <<
        Fld(<<"B","a","r">>, <<>>, FALSE, TRUE, TString),
        Fld(<<"i","n","n","e","r">>, <<>>, FALSE, FALSE, Embedded),
        Fld(<<"A","B","o","o","l">>, <<>>, FALSE, TRUE, TBool)>>)

\* An unsigned integer, a small integer and pointers to a duration, an instant
\* and a record.
Odd ==
    TStruct("Odd", <<
        Fld(<<"U">>, <<>>, FALSE, TRUE, TUint8),
        Fld(<<"I">>, <<>>, FALSE, TRUE, TInt8),
        Fld(<<"P","D">>, <<>>, FALSE, TRUE, TPtr(TDuration)),
        Fld(<<"P","T">>, <<>>, FALSE, TRUE, TPtr(TTime)),
        Fld(<<"P","S">>, <<>>, FALSE, TRUE, TPtr(Embedded))>>)

\* Unexported fields that do not end the walk: a scalar and a nil-able pointer.
Private ==
    TStruct("Private", <<
        Fld(<<"s","e","c","r","e","t">>, <<>>, FALSE, FALSE, TInt),
        Fld(<<"B","a","r">>, <<>>, FALSE, TRUE, TString),
        Fld(<<"p","t","r">>, <<>>, FALSE, FALSE, TPtr(TBool))>>)

\* Containers: a byte sequence, and an array, a map and a slice that are none.
Containers ==
    TStruct("Containers", <<
        Fld(<<"B","i","n">>, <<>>, FALSE, TRUE, TBytes),
        Fld(<<"A","r","r">>, <<>>, FALSE, TRUE, TByteArray),
        Fld(<<"C","o","u","n","t","s">>, <<>>, FALSE, TRUE, TByteMap),
        Fld(<<"N","a","m","e","s">>, <<>>, FALSE, TRUE, TStrings)>>)

\* type Count int
TCount == Ty("Int", "Count", <<>>, <<>>)

\* A record that embeds a type that is no record: struct { Count; Bar string }.
Mixed ==
    TStruct("Mixed", <<
        Fld(<<"C","o","u","n","t">>, <<>>, TRUE, TRUE, TCount),
        Fld(<<"B","a","r">>, <<>>, FALSE, TRUE, TString)>>)

\* The types of the values handed to the walkers: the record types and what is
\* no record, an int and a pointer to an int.
Types ==
    <<Scalars, Pointers, Embedding, Deep, Times, Excluding, Hidden, Odd, Private,
      TInt, TPtr(TInt), Containers, Mixed>>

\* The strings of the model: empty, one with the characters the shell treats
\* specially, one with a NUL.
StrVals == {<<>>, <<"a", "'", "\n", "\\", "$">>, <<"b", "NUL">>}

RECURSIVE Values(_)
RECURSIVE FieldTuples(_, _)

\* The tuples of values of the first n fields.
FieldTuples(fields, n) ==
    IF n = 0 THEN {<<>>}
    ELSE {Append(h, x) : h \in FieldTuples(fields, n - 1), x \in Values(fields[n].typ)}

\* The values of a type that the model draws its records from.
Values(t) ==
    CASE t.kind = "String" -> StrVals
      [] t.kind = "Bool" -> BOOLEAN
      [] t.kind = "Int" -> {0, -42}
      [] t.kind = "Int8" -> {-7}
      [] t.kind = "Uint8" -> {200}
      [] t.kind = "Float64" -> {0, 575}
      [] t = TDuration -> {0, 1500000000}
      [] t = TTime -> {TimeVal("d1", 7, 0), TimeVal("d1", 30, 5)}
      [] t.kind = "Slice" /\ Elem(t).kind = "Uint8" -> {<<>>, <<0, 1, 2>>, <<255, 65>>}
      [] t.kind = "Slice" -> {<<>>}
      [] t.kind = "Array" -> {<<0, 0>>, <<1, 2>>}
      [] t.kind = "Map" -> {<<>>}
      [] t.kind = "Ptr" -> {<<>>} \cup {<<x>> : x \in Values(Elem(t))}
      [] t.kind = "Struct" -> FieldTuples(t.fields, Len(t.fields))

Prefixes == {<<>>, <<"P", "_">>}

\* The values a lookup may hold for each record type, in the order of Types:
\* the empty string, text that is no number, integers, a decimal, a bool,
\* base64 text and an instant.
EnvVals ==
    <<{<<>>, <<"x">>, <<"1">>, <<"t","r","u","e">>},
      {<<>>, <<"x">>, <<"1">>, <<"A","A","E","C">>},
      {<<>>, <<"x">>},
      {<<>>, <<"x">>},
      {<<>>, <<"x">>, <<"1", ".", "5">>, FormatRFC3339(TimeVal("d1", 9, 0))},
      {<<"x">>, <<"1">>},
      {<<"x">>, <<"1">>},
      {<<"x">>, <<"1">>, <<"3","0","0">>, <<"1", ".", "5">>},
      {<<"x">>, <<"1">>},
      {<<"1">>},
      {<<"1">>},
      {<<"x">>, <<"A","A","E","C">>},
      {<<"x">>, <<"1">>}>>

\* How many keys a lookup of the model holds at most.
MaxFound == 2

\* The record type with its exclusion tags taken off.
RECURSIVE Untagged(_)
Untagged(t) ==
    IF t.kind # "Struct" THEN t
    ELSE [t EXCEPT !.fields =
            [i \in DOMAIN t.fields |->
                [t.fields[i] EXCEPT !.tag = IF @ = <<"-">> THEN <<>> ELSE @,
                                    !.typ = Untagged(@)]]]

Asked(t, pfx) == SetFrom(<<>>, pfx, TPtr(t), <<Zero(t)>>).calls
Made(t) == StructToEnvVars(t, Zero(t)).envVars
KeysIn(asked, made, pfx) ==
    {asked[i].key : i \in DOMAIN asked} \cup {pfx \o made[i].Key : i \in DOMAIN made}

\* The keys of a record type under a prefix: those SetFrom asks for and those
\* StructToEnvVars emits, and those its excluded fields would have.
KeysOf(t, pfx) ==
    KeysIn(Asked(t, pfx), Made(t), pfx)
    \cup KeysIn(Asked(Untagged(t), pfx), Made(Untagged(t)), pfx)

\* The lookups of the model for the i-th record type.
Envs(i, pfx) ==
    UNION {[ks -> EnvVals[i]] :
             ks \in {S \in SUBSET KeysOf(Types[i], pfx) : Cardinality(S) <= MaxFound}}

-----------------------------------------------------------------------------
(* Reading the shell text back: what a POSIX shell makes of the assignments *)

\* The word starting at text[i]: inside '...' everything is literal, outside
\* a backslash quotes the next character, and a line feed ends the word.
RECURSIVE ReadWord(_, _, _, _)
ReadWord(text, i, quoted, out) ==
    IF i > Len(text) THEN [val |-> out, next |-> i]
    ELSE IF quoted
    THEN IF text[i] = "'" THEN ReadWord(text, i + 1, FALSE, out)
         ELSE ReadWord(text, i + 1, TRUE, Append(out, text[i]))
    ELSE CASE text[i] = "'" -> ReadWord(text, i + 1, TRUE, out)
           [] text[i] = "\\" /\ i < Len(text) ->
                ReadWord(text, i + 2, FALSE, Append(out, text[i + 1]))
           [] text[i] = "\n" -> [val |-> out, next |-> i + 1]
           [] OTHER -> ReadWord(text, i + 1, FALSE, Append(out, text[i]))

\* The position of the first "=" or line feed at or after i (Len + 1 if none).
RECURSIVE ScanName(_, _)
ScanName(text, i) ==
    IF i > Len(text) \/ text[i] \in {"=", "\n"} THEN i ELSE ScanName(text, i + 1)

\* The assignments NAME=word of the text, in order; a line without "=" (the
\* export line) is no assignment.
RECURSIVE ReadAssignments(_, _, _)
ReadAssignments(text, i, out) ==
    IF i > Len(text) THEN out
    ELSE LET j == ScanName(text, i)
         IN  IF j > Len(text) THEN out
             ELSE IF text[j] = "\n" THEN ReadAssignments(text, j + 1, out)
             ELSE LET w == ReadWord(text, j + 1, FALSE, <<>>)
                  IN  ReadAssignments(text, w.next,
                          Append(out, [key |-> SubSeq(text, i, j - 1), val |-> w.val]))

Assignments(text) == ReadAssignments(text, 1, <<>>)

\* The lookup backed by the text: each name maps to its last assignment.
ShellEnv(text) ==
    LET as == Assignments(text)
        last(k) == CHOOSE i \in DOMAIN as :
                      as[i].key = k /\ \A j \in DOMAIN as : as[j].key = k => j <= i
    IN  [k \in {as[i].key : i \in DOMAIN as} |-> as[last(k)].val]

-----------------------------------------------------------------------------
(* The state machine *)

T == Types[tid]

Init ==
    /\ tid \in DOMAIN Types
    /\ rec \in Values(Types[tid])
    /\ prefix \in Prefixes
    /\ ser = "no"
    /\ kvs = <<>>
    /\ errs = <<>>
    /\ shell = <<>>
    /\ skip = FALSE
    /\ set = "no"
    /\ src = "none"
    /\ env = <<>>
    /\ byPtr = TRUE
    /\ prior = rec
    /\ dst = rec
    /\ lookups = <<>>
    /\ setErrs = <<>>
    /\ fn = "none"
    /\ arg = <<>>
    /\ ret = <<>>

\* kvs, errs := StructToEnvVars(rec); a panic returns nothing.
Serialize ==
    /\ ser = "no"
    /\ set = "no"
    /\ \E r \in {StructToEnvVars(T, rec)} :
          /\ ser' = IF r.panicked THEN "panic" ELSE "ok"
          /\ kvs' = IF r.panicked THEN <<>> ELSE r.envVars
          /\ errs' = IF r.panicked THEN <<>> ELSE r.allErrors
    /\ UNCHANGED <<tid, rec, prefix, shell, skip, set, src, env, byPtr, prior, dst,
                   lookups, setErrs, fn, arg, ret>>

\* shell := ToShellWithPrefix(prefix, kvs, skipExport)
Render ==
    /\ ser = "ok"
    /\ shell = <<>>
    /\ \E sk \in BOOLEAN :
          /\ skip' = sk
          /\ shell' = <<ToShellWithPrefix(prefix, kvs, sk)>>
    /\ UNCHANGED <<tid, rec, prefix, ser, kvs, errs, set, src, env, byPtr, prior, dst,
                   lookups, setErrs, fn, arg, ret>>

\* The effect of errs := SetFrom(lk, prefix, s) on a record holding v0, s being
\* the record's address or the record itself (a copy: the caller's is untouched).
ApplySetFrom(lk, v0, ptr) ==
    \E r \in {SetFrom(lk, prefix, IF ptr THEN TPtr(T) ELSE T, IF ptr THEN <<v0>> ELSE v0)} :
        /\ env' = lk
        /\ byPtr' = ptr
        /\ prior' = v0
        /\ dst' = IF ptr THEN r.val[1] ELSE v0
        /\ lookups' = r.calls
        /\ set' = IF r.panicked THEN "panic" ELSE "ok"
        /\ setErrs' = IF r.panicked THEN <<>> ELSE r.allErrors

\* SetFrom into a fresh zero record, the lookup backed by the rendered text.
SetFromShell ==
    /\ shell # <<>>
    /\ set = "no"
    /\ src' = "shell"
    /\ ApplySetFrom(ShellEnv(shell[1]), Zero(T), TRUE)
    /\ UNCHANGED <<tid, rec, prefix, ser, kvs, errs, shell, skip, fn, arg, ret>>

\* SetFrom into the record as it is, with any lookup of the model.
SetFromEnv ==
    /\ ser = "no"
    /\ set = "no"
    /\ src' = "env"
    /\ \E lk \in Envs(tid, prefix), ptr \in BOOLEAN : ApplySetFrom(lk, rec, ptr)
    /\ UNCHANGED <<tid, rec, prefix, ser, kvs, errs, shell, skip, fn, arg, ret>>

Next == Serialize \/ Render \/ SetFromShell \/ SetFromEnv

Spec == Init /\ [][Next]_vars

-----------------------------------------------------------------------------
(* The string functions, each called on its own *)

\* How long the strings handed to ShellQuote and to the case functions are at most.
MaxQuoteLen == 3
MaxWordLen == 5
MaxByteLen == 3

RECURSIVE Strings(_, _)
Strings(alphabet, n) ==
    IF n = 0 THEN {<<>>}
    ELSE Strings(alphabet, n - 1)
         \cup {Append(s, c) : s \in {x \in Strings(alphabet, n - 1) : Len(x) = n - 1},
                              c \in alphabet}

\* Text with the characters a shell treats specially, and NUL.
QuoteInputs == Strings({"a", " ", "'", "\\", "$", "\n", "NUL"}, MaxQuoteLen)

\* Identifiers of TestSplitByCase and TestCamelCaseToSnakeCase.
Identifiers ==
    {<<"H","T","T","P","S","S","e","r","v","e","r","4","2">>,
     <<"A","B","C","d">>, <<"A","A","b">>, <<"1","a","2","B","b">>,
     <<"h","t","t","p","S","e","r","v","e","r">>}

WordInputs == Strings({"a", "B", "1"}, MaxWordLen) \cup Identifiers

\* Strings with bytes at or above 0x80: the encoding of U+FFFD whole, in part
\* and out of order, between letters.
ByteInputs ==
    Strings({"a", "B"} \cup Range(RuneErrorBytes), MaxByteLen)
    \cup {RuneErrorBytes \o <<"B", "a">>, <<"a", "B">> \o RuneErrorBytes}

Walkers == <<tid, rec, prefix, ser, kvs, errs, shell, skip,
             set, src, env, byPtr, prior, dst, lookups, setErrs>>

\* ret := name(s)
Call(name, s, result) ==
    /\ fn' = name
    /\ arg' = s
    /\ ret' = result

CallShellQuote ==
    /\ fn = "none"
    /\ \E s \in QuoteInputs : Call("ShellQuote", s, ShellQuote(s))
    /\ UNCHANGED Walkers

CallSplitByCase ==
    /\ fn = "none"
    /\ \E s \in WordInputs \cup ByteInputs : Call("SplitByCase", s, SplitByCase(s))
    /\ UNCHANGED Walkers

CallUpperSnake ==
    /\ fn = "none"
    /\ \E s \in WordInputs :
          Call("CamelCaseToUpperSnakeCase", s, CamelCaseToUpperSnakeCase(s))
    /\ UNCHANGED Walkers

CallLowerSnake ==
    /\ fn = "none"
    /\ \E s \in WordInputs :
          Call("CamelCaseToLowerSnakeCase", s, CamelCaseToLowerSnakeCase(s))
    /\ UNCHANGED Walkers

CallLowerKebab ==
    /\ fn = "none"
    /\ \E s \in WordInputs :
          Call("CamelCaseToLowerKebabCase", s, CamelCaseToLowerKebabCase(s))
    /\ UNCHANGED Walkers

StringsInit == Init /\ tid = 1 /\ rec = Zero(Types[1]) /\ prefix = <<>>

StringsNext ==
    CallShellQuote \/ CallSplitByCase \/ CallUpperSnake \/ CallLowerSnake \/ CallLowerKebab

StringsSpec == StringsInit /\ [][StringsNext]_vars

-----------------------------------------------------------------------------
(* Paths, and the keys the specification gives the fields *)

IsRecord(t) == t.kind = "Struct" /\ t # TTime

\* The field at the end of a path.
RECURSIVE FieldAt(_, _)
FieldAt(t, p) ==
    IF Len(p) = 1 THEN t.fields[p[1]] ELSE FieldAt(t.fields[p[1]].typ, Tail(p))

RECURSIVE ValueAt(_, _)
ValueAt(v, p) == IF p = <<>> THEN v ELSE ValueAt(v[p[1]], Tail(p))

\* The paths of the leaf fields: the fields that are no nested or embedded record.
RECURSIVE LeafPaths(_)
LeafPaths(t) ==
    UNION {IF IsRecord(t.fields[i].typ)
           THEN {<<i>> \o q : q \in LeafPaths(t.fields[i].typ)}
           ELSE {<<i>>} : i \in DOMAIN t.fields}

\* The fields passed on the way: the path's non-empty prefixes.
Steps(p) == {SubSeq(p, 1, n) : n \in 1..Len(p)}
Ancestors(p) == Steps(p) \ {p}

ExcludedOnPath(t, p) == \E q \in Steps(p) : FieldAt(t, q).tag = <<"-">>
Reached(t) == {p \in LeafPaths(t) : ~ExcludedOnPath(t, p)}

\* The key of the specification: the segment of every named ancestor followed
\* by "_", nothing for an embedded ancestor, then the field's own segment.
RECURSIVE ExpectedKey(_, _)
ExpectedKey(t, p) ==
    IF Len(p) = 1 THEN TagOf(t.fields[p[1]])
    ELSE (IF t.fields[p[1]].anon THEN <<>> ELSE TagOf(t.fields[p[1]]) \o <<"_">>)
         \o ExpectedKey(t.fields[p[1]].typ, Tail(p))

\* p before q in declaration order, depth first.
RECURSIVE PathBefore(_, _)
PathBefore(p, q) ==
    /\ p # <<>>
    /\ q # <<>>
    /\ \/ p[1] < q[1]
       \/ p[1] = q[1] /\ PathBefore(Tail(p), Tail(q))

At(entries, p) == {i \in DOMAIN entries : entries[i].at = p}

\* Whether a value has a NUL in one of its strings.
RECURSIVE HasNUL(_, _)
HasNUL(t, v) ==
    CASE t.kind = "String" -> ContainsRune(v, "NUL")
      [] t.kind = "Ptr" -> v # <<>> /\ HasNUL(Elem(t), v[1])
      [] IsRecord(t) -> \E i \in DOMAIN t.fields : HasNUL(t.fields[i].typ, v[i])
      [] OTHER -> FALSE

-----------------------------------------------------------------------------
(* C1: the round trip *)

\* The field kinds the round trip is stated for: every field exported and not
\* excluded, no container other than a byte sequence.
RECURSIVE RoundTrips(_)
RoundTrips(t) ==
    CASE t = TTime -> TRUE
      [] t.kind = "Struct" ->
            \A i \in DOMAIN t.fields :
                /\ t.fields[i].exp
                /\ t.fields[i].tag # <<"-">>
                /\ RoundTrips(t.fields[i].typ)
      [] t.kind = "Ptr" -> RoundTrips(Elem(t))
      [] t.kind = "Map" -> FALSE
      [] OTHER -> TRUE

\* The state after StructToEnvVars, ToShellWithPrefix and SetFrom into a zero
\* record through a lookup that reads the rendered text.
RoundTripDone == src = "shell" /\ IsRecord(T) /\ RoundTrips(T) /\ ~HasNUL(T, rec)

\* C1: a record of supported field kinds without NUL in its strings, serialised
\* without error, rendered under a prefix and set from the rendered text into a
\* zero record, comes back equal to the original and SetFrom reports no error.
C1_RoundTrip ==
    RoundTripDone => /\ errs = <<>>
                     /\ set = "ok"
                     /\ setErrs = <<>>
                     /\ dst = rec

-----------------------------------------------------------------------------
(* C2, C3: the keys of nested and embedded records *)

NamedAncestors(t, p) == \A q \in Ancestors(p) : ~FieldAt(t, q).anon
EmbeddedParent(t, p) == Len(p) > 1 /\ FieldAt(t, SubSeq(p, 1, Len(p) - 1)).anon

\* C2: the key of a leaf reached through named nested records only is the
\* segment of every enclosing field, outermost first, each followed by "_",
\* then the leaf's own segment, at every depth.
C2_NestedKey ==
    ser = "ok" =>
        \A i \in DOMAIN kvs :
            NamedAncestors(T, kvs[i].at) => kvs[i].Key = ExpectedKey(T, kvs[i].at)

\* C3: the children of an embedded record get the key prefix of the level that
\* embeds it followed by their own segment, whatever the depth of that level.
C3_EmbeddedKey ==
    ser = "ok" =>
        \A i \in DOMAIN kvs :
            EmbeddedParent(T, kvs[i].at) => kvs[i].Key = ExpectedKey(T, kvs[i].at)

-----------------------------------------------------------------------------
(* C4: the keys SetFrom asks for *)

\* C4: SetFrom under prefix P passes to the lookup, in order, exactly the keys
\* P+Key of the entries StructToEnvVars emits for the same record type.
C4_SameKeys ==
    (ser = "ok" /\ set = "ok") =>
        [i \in DOMAIN lookups |-> lookups[i].key]
            = [i \in DOMAIN kvs |-> prefix \o kvs[i].Key]

-----------------------------------------------------------------------------
(* C5: excluded fields *)

\* The paths of all fields, records included.
RECURSIVE FieldPaths(_)
FieldPaths(t) ==
    UNION {{<<i>>} \cup (IF IsRecord(t.fields[i].typ)
                         THEN {<<i>> \o q : q \in FieldPaths(t.fields[i].typ)}
                         ELSE {}) : i \in DOMAIN t.fields}

ExcludedFields(t) == {p \in FieldPaths(t) : FieldAt(t, p).tag = <<"-">>}

\* The keys SetFrom would ask for the excluded fields and their descendants,
\* were they not excluded.
ExcludedKeys(t, pfx) ==
    LET asked == Asked(Untagged(t), pfx)
    IN  {asked[i].key : i \in {j \in DOMAIN asked : ExcludedOnPath(t, asked[j].at)}}

\* C5: a field tagged env:"-" gives StructToEnvVars no entry and no error, it
\* and its descendants included; SetFrom never passes its key or a descendant's
\* key to the lookup, and leaves the field's value as it was.
C5_Excluded ==
    /\ ser = "ok" =>
          /\ \A i \in DOMAIN kvs : ~ExcludedOnPath(T, kvs[i].at)
          /\ \A i \in DOMAIN errs : ~ExcludedOnPath(T, errs[i].at)
    /\ set # "no" =>
          /\ \A i \in DOMAIN lookups :
                /\ ~ExcludedOnPath(T, lookups[i].at)
                /\ lookups[i].key \notin ExcludedKeys(T, prefix)
          /\ \A p \in ExcludedFields(T) : ValueAt(dst, p) = ValueAt(prior, p)

\* A lookup holding the key an excluded nested record's child would have, the
\* child holding a value, while SetFrom changes another field.
C5_Witness ==
    /\ set = "ok"
    /\ byPtr
    /\ ExcludedFields(T) # {}
    /\ DOMAIN env \cap ExcludedKeys(T, prefix) # {}
    /\ \E p \in ExcludedFields(T) : ValueAt(prior, p) # Zero(FieldAt(T, p).typ)
    /\ dst # prior

-----------------------------------------------------------------------------
(* C6: order *)

StartsAt(text, i, w) == i + Len(w) - 1 <= Len(text) /\ SubSeq(text, i, i + Len(w) - 1) = w

\* The position after the lines P+Key=ShellQuotedVal of the entries k, k+1, ...
\* read from position i of the text, or 0 when the text has something else.
RECURSIVE AfterLines(_, _, _)
AfterLines(text, i, k) ==
    IF k > Len(kvs) THEN i
    ELSE LET line == prefix \o kvs[k].Key \o <<"=">> \o kvs[k].ShellQuotedVal \o <<"\n">>
         IN  IF StartsAt(text, i, line) THEN AfterLines(text, i + Len(line), k + 1) ELSE 0

ExportLine ==
    <<"e","x","p","o","r","t"," ">>
    \o Join([i \in DOMAIN kvs |-> prefix \o kvs[i].Key], <<" ">>) \o <<"\n">>

\* C6: StructToEnvVars lists the leaf fields in declaration order, depth first;
\* ToShellWithPrefix writes one line P+Key=ShellQuotedVal per entry in that
\* order and then, unless skipExport, one export line naming the prefixed keys
\* in that order, and nothing else.
C6_Order ==
    /\ ser = "ok" =>
          \A i, j \in DOMAIN kvs : i < j => PathBefore(kvs[i].at, kvs[j].at)
    /\ shell # <<>> =>
          /\ AfterLines(shell[1], 1, 1) > 0
          /\ SubSeq(shell[1], AfterLines(shell[1], 1, 1), Len(shell[1]))
                = IF skip THEN <<>> ELSE ExportLine

\* A nested and an embedded record rendered under a prefix with the export line.
C6_Witness ==
    /\ shell # <<>>
    /\ ~skip
    /\ prefix # <<>>
    /\ Len(kvs) >= 3
    /\ \E i \in DOMAIN kvs : Len(kvs[i].at) = 3

-----------------------------------------------------------------------------
(* C7: a value that fails to encode *)

\* C7: a leaf field whose encoded text has a NUL adds exactly one error, and
\* its entry is still there, once, under the field's key, with the empty
\* ShellQuotedVal.
C7_EncodeFailure ==
    ser = "ok" =>
        \A p \in Reached(T) :
            HasNUL(FieldAt(T, p).typ, ValueAt(rec, p)) =>
                /\ Cardinality(At(errs, p)) = 1
                /\ Cardinality(At(kvs, p)) = 1
                /\ \A i \in At(kvs, p) :
                      /\ kvs[i].ShellQuotedVal = <<>>
                      /\ HasSuffix(kvs[i].Key, TagOf(FieldAt(T, p)))

\* A string with a NUL in a field that is followed by another entry.
C7_Witness ==
    /\ ser = "ok"
    /\ \E p \in Reached(T) :
          /\ HasNUL(FieldAt(T, p).typ, ValueAt(rec, p))
          /\ \E i \in At(kvs, p) : i < Len(kvs)
          /\ At(errs, p) # {}

-----------------------------------------------------------------------------
(* C8: a value that fails to parse *)

ParseFailures ==
    {"ParseInt", "ParseFloat", "ParseBool", "parsing time", "illegal base64 data"}

\* C8: a key that is found with text that does not parse adds exactly one
\* error and leaves the field as it was: a nil pointer nil, a byte sequence
\* with its previous content.
C8_ParseFailure ==
    set = "ok" =>
        \A i \in DOMAIN setErrs :
            setErrs[i].msg \in ParseFailures =>
                /\ Cardinality(At(setErrs, setErrs[i].at)) = 1
                /\ ValueAt(dst, setErrs[i].at) = ValueAt(prior, setErrs[i].at)

-----------------------------------------------------------------------------
(* C9: keys that are not found *)

NotFound(p) == \A i \in At(lookups, p) : ~lookups[i].found

\* C9: SetFrom changes only fields whose key the lookup reports as found: a
\* field whose key is not found keeps its value, a nil pointer nil, and adds
\* no error; the lookup's answer alone decides what is found.
C9_OnlyFound ==
    set # "no" =>
        /\ \A i \in DOMAIN lookups : lookups[i].found = (lookups[i].key \in DOMAIN env)
        /\ \A p \in LeafPaths(T) :
              NotFound(p) => /\ ValueAt(dst, p) = ValueAt(prior, p)
                             /\ At(setErrs, p) = {}

\* Two nil pointers: the one whose key is found is allocated, the one whose
\* key is asked for and not found stays nil.
C9_Witness ==
    /\ set = "ok"
    /\ byPtr
    /\ \E p, q \in LeafPaths(T) :
          /\ FieldAt(T, p).typ.kind = "Ptr"
          /\ FieldAt(T, q).typ.kind = "Ptr"
          /\ ValueAt(prior, p) = <<>>
          /\ ValueAt(prior, q) = <<>>
          /\ At(lookups, p) # {}
          /\ NotFound(p)
          /\ ValueAt(dst, p) = <<>>
          /\ ~NotFound(q)
          /\ ValueAt(dst, q) # <<>>

-----------------------------------------------------------------------------
(* C10: nil pointers in StructToEnvVars *)

NilPointers == {p \in Reached(T) : FieldAt(T, p).typ.kind = "Ptr" /\ ValueAt(rec, p) = <<>>}

HasLine(text, line) ==
    \E i \in DOMAIN text :
        /\ StartsAt(text, i, line \o <<"\n">>)
        /\ i = 1 \/ text[i - 1] = "\n"

\* C10: a nil pointer field gives exactly one entry, under the field's key,
\* with the empty ShellQuotedVal and the YamlQuotedVal null, and no error; the
\* shell text has it as KEY= with nothing after the "=".
C10_NilPointer ==
    /\ ser = "ok" =>
          \A p \in NilPointers :
              /\ Cardinality(At(kvs, p)) = 1
              /\ At(errs, p) = {}
              /\ \A i \in At(kvs, p) :
                    /\ kvs[i].Key = TagOf(FieldAt(T, p))
                    /\ kvs[i].ShellQuotedVal = <<>>
                    /\ kvs[i].YamlQuotedVal = <<"n","u","l","l">>
    /\ shell # <<>> =>
          \A p \in NilPointers :
              \A i \in At(kvs, p) : HasLine(shell[1], prefix \o kvs[i].Key \o <<"=">>)

\* A record with a nil pointer and a pointer that is set, rendered.
C10_Witness ==
    /\ shell # <<>>
    /\ NilPointers # {}
    /\ \E p \in Reached(T) : FieldAt(T, p).typ.kind = "Ptr" /\ ValueAt(rec, p) # <<>>

-----------------------------------------------------------------------------
(* C11: ShellQuote *)

\* Each single quote written as the four characters '\''.
RECURSIVE QuoteRunes(_)
QuoteRunes(s) ==
    IF s = <<>> THEN <<>>
    ELSE (IF Head(s) = "'" THEN <<"'", "\\", "'", "'">> ELSE <<Head(s)>>)
         \o QuoteRunes(Tail(s))

\* Whether, from position i on, everything outside '...' is an escaped quote
\* and the last quoted region is closed.
RECURSIVE OnlyQuotesOutside(_, _, _)
OnlyQuotesOutside(q, i, quoted) ==
    IF i > Len(q) THEN ~quoted
    ELSE IF quoted THEN OnlyQuotesOutside(q, i + 1, q[i] # "'")
    ELSE CASE q[i] = "'" -> OnlyQuotesOutside(q, i + 1, TRUE)
           [] q[i] = "\\" /\ i < Len(q) /\ q[i + 1] = "'" -> OnlyQuotesOutside(q, i + 2, FALSE)
           [] OTHER -> FALSE

\* C11: for a string without NUL ShellQuote returns the string in single
\* quotes with each single quote written as '\'', which a shell reads back as
\* exactly that string, in one word, nothing of it outside a quoted region but
\* escaped quotes; for a string with a NUL it returns an error and "".
C11_ShellQuote ==
    fn = "ShellQuote" =>
        IF ContainsRune(arg, "NUL")
        THEN ret.err # NoErr /\ ret.s = <<>>
        ELSE /\ ret.err = NoErr
             /\ ret.s = <<"'">> \o QuoteRunes(arg) \o <<"'">>
             /\ ReadWord(ret.s, 1, FALSE, <<>>) = [val |-> arg, next |-> Len(ret.s) + 1]
             /\ OnlyQuotesOutside(ret.s, 1, FALSE)

\* A string with a quote, a dollar and a line feed, quoted.
C11_Witness ==
    /\ fn = "ShellQuote"
    /\ arg = <<"'", "$", "\n">>
    /\ ret.err = NoErr

-----------------------------------------------------------------------------
(* C12: an input that is no record *)

\* Neither a record nor a pointer that points at a record.
NotARecord(t, v) == ~(IsRecord(t) \/ (t.kind = "Ptr" /\ v # <<>> /\ IsRecord(Elem(t))))

\* What SetFrom was handed: the address of the value, or the value.
SetType == IF byPtr THEN TPtr(T) ELSE T
SetArg == IF byPtr THEN <<prior>> ELSE prior

\* C12: StructToEnvVars on a primitive, a pointer to a primitive or a nil
\* pointer returns no entry and exactly one error; SetFrom on such an input
\* returns exactly one error, never calls the lookup and changes nothing.
C12_NotARecord ==
    /\ (ser # "no" /\ NotARecord(T, rec)) =>
          /\ ser = "ok"
          /\ kvs = <<>>
          /\ Len(errs) = 1
    /\ (set # "no" /\ NotARecord(SetType, SetArg)) =>
          /\ set = "ok"
          /\ Len(setErrs) = 1
          /\ lookups = <<>>
          /\ dst = prior

\* A pointer to an int handed to StructToEnvVars, and SetFrom handed the
\* address of a nil pointer.
C12_Witness ==
    /\ T = TPtr(TInt)
    /\ rec # <<>>
    /\ ser = "ok"
    /\ Len(errs) = 1
    /\ set = "ok"
    /\ SetArg = <<<<>>>>

-----------------------------------------------------------------------------
(* C13: container fields *)

IsContainer(t) == t.kind \in {"Slice", "Array", "Map", "Chan"}

ContainerFields == {p \in Reached(T) : IsContainer(FieldAt(T, p).typ)}

\* C13: a container field gives an entry exactly when it is a byte sequence,
\* and the entry's shell value then is the standard base64 of the bytes in
\* single quotes; any other container, one of 8-bit unsigned integers
\* included, gives no entry and no error.
C13_Containers ==
    ser = "ok" =>
        \A p \in ContainerFields :
            /\ At(errs, p) = {}
            /\ IF FieldAt(T, p).typ = TBytes
               THEN /\ Cardinality(At(kvs, p)) = 1
                    /\ \A i \in At(kvs, p) :
                          kvs[i].ShellQuotedVal
                              = <<"'">> \o EncodeToString(ValueAt(rec, p)) \o <<"'">>
               ELSE At(kvs, p) = {}

-----------------------------------------------------------------------------
(* C14: SplitByCase *)

\* The rule: a word starts at position i > 1 exactly when the character there
\* is upper-case and the next one is lower-case or the previous one is.
Boundary(s, i) ==
    /\ i > 1
    /\ IsUpper(s[i])
    /\ \/ i < Len(s) /\ IsLower(s[i + 1])
       \/ IsLower(s[i - 1])

WordStarts(s) == {1} \cup {i \in DOMAIN s : Boundary(s, i)}

\* The k-th word start, and the words between one start and the next.
NthStart(s, k) ==
    CHOOSE c \in WordStarts(s) : Cardinality({x \in WordStarts(s) : x < c}) = k - 1

WordEnd(s, k) ==
    IF k = Cardinality(WordStarts(s)) THEN Len(s) ELSE NthStart(s, k + 1) - 1

RuleWords(s) ==
    IF s = <<>> THEN <<>>
    ELSE [k \in 1..Cardinality(WordStarts(s)) |-> SubSeq(s, NthStart(s, k), WordEnd(s, k))]

LettersAndDigits(s) == \A i \in DOMAIN s : IsLower(s[i]) \/ IsUpper(s[i]) \/ IsDigit(s[i])

\* The examples: an identifier and its words.
SplitExamples ==
    {<< <<>>, <<>> >>,
     << <<"H","T","T","P","S","S","e","r","v","e","r","4","2">>,
        << <<"H","T","T","P","S">>, <<"S","e","r","v","e","r","4","2">> >> >>,
     << <<"A","B","C","d">>, << <<"A","B">>, <<"C","d">> >> >>,
     << <<"A","A","b">>, << <<"A">>, <<"A","b">> >> >>,
     << <<"1","a","2","B","b">>, << <<"1","a","2">>, <<"B","b">> >> >>}

\* C14: SplitByCase cuts a string of letters and digits exactly where the rule
\* says, gives no word for the empty string, gives the examples their words,
\* and never starts a new word at a digit.
C14_SplitByCase ==
    (fn = "SplitByCase" /\ LettersAndDigits(arg)) =>
        /\ ret = RuleWords(arg)
        /\ \A e \in SplitExamples : arg = e[1] => ret = e[2]
        /\ \A k \in DOMAIN ret : k > 1 => ~IsDigit(ret[k][1])

\* HTTPSServer42, cut before the second S.
C14_Witness ==
    /\ fn = "SplitByCase"
    /\ arg = <<"H","T","T","P","S","S","e","r","v","e","r","4","2">>
    /\ Len(ret) = 2

-----------------------------------------------------------------------------
(* C15: the case converters *)

Upper(s) == [i \in DOMAIN s |-> ToUpperRune(s[i])]
Lower(s) == [i \in DOMAIN s |-> ToLowerRune(s[i])]

\* C15: CamelCaseToUpperSnakeCase is the words of SplitByCase joined by "_" in
\* upper case, CamelCaseToLowerSnakeCase the same join in lower case, which is
\* the upper-snake result in lower case, and CamelCaseToLowerKebabCase the
\* words joined by "-" in lower case; all three give "" for "".
C15_Converters ==
    /\ fn = "CamelCaseToUpperSnakeCase" =>
          /\ ret = Upper(Join(SplitByCase(arg), <<"_">>))
          /\ arg = <<>> => ret = <<>>
    /\ fn = "CamelCaseToLowerSnakeCase" =>
          /\ ret = Lower(Join(SplitByCase(arg), <<"_">>))
          /\ ret = Lower(CamelCaseToUpperSnakeCase(arg))
          /\ arg = <<>> => ret = <<>>
    /\ fn = "CamelCaseToLowerKebabCase" =>
          /\ ret = Lower(Join(SplitByCase(arg), <<"-">>))
          /\ arg = <<>> => ret = <<>>

\* httpServer becomes http-server.
C15_Witness ==
    /\ fn = "CamelCaseToLowerKebabCase"
    /\ arg = <<"h","t","t","p","S","e","r","v","e","r">>
    /\ ret = <<"h","t","t","p","-","s","e","r","v","e","r">>

-----------------------------------------------------------------------------
(* C16: the walkers go on after an error *)

\* The entries and errors at a path, in order, without their paths.
Sub(entries, p) ==
    LET RECURSIVE Pick(_)
        Pick(i) == IF i > Len(entries) THEN <<>>
                   ELSE (IF entries[i].at = p THEN <<entries[i]>> ELSE <<>>) \o Pick(i + 1)
    IN  Pick(1)

Vals(entries) ==
    [i \in DOMAIN entries |-> <<entries[i].ShellQuotedVal, entries[i].YamlQuotedVal>>]
Msgs(errors) == [i \in DOMAIN errors |-> errors[i].msg]

\* A record with the one field f.
One(f) == TStruct("", <<f>>)

\* StructToEnvVars on the field at p alone.
SerAlone(p) == StructToEnvVars(One(FieldAt(T, p)), <<ValueAt(rec, p)>>)

\* SetFrom on the field at p alone, asked for under the key k, the record
\* handed over as the whole record was.
SetAlone(p, k) ==
    SetFrom(env, <<>>,
            IF byPtr THEN TPtr(One([FieldAt(T, p) EXCEPT !.tag = k]))
                     ELSE One([FieldAt(T, p) EXCEPT !.tag = k]),
            IF byPtr THEN << <<ValueAt(prior, p)>> >> ELSE <<ValueAt(prior, p)>>)

\* The leaves SetFrom comes to: all of them in an addressable record, those
\* of the record itself in one handed over by value; and the nested records
\* it cannot take the address of.
Visited == {p \in Reached(T) : byPtr \/ Len(p) = 1}
Unaddressable ==
    {p \in FieldPaths(T) : /\ ~byPtr
                           /\ Len(p) = 1
                           /\ IsRecord(FieldAt(T, p).typ)
                           /\ ~ExcludedOnPath(T, p)}

\* C16: an error recorded for one field changes nothing for the others: in a
\* call that returns, every leaf gets from StructToEnvVars the entry and the
\* error it gets alone, every leaf SetFrom comes to is looked up once and gets
\* the value and the error it gets alone, and each error list has one entry
\* per failing field.
C16_NoStopAtError ==
    /\ (ser = "ok" /\ IsRecord(T)) =>
          /\ \A p \in Reached(T) :
                /\ Vals(Sub(kvs, p)) = Vals(SerAlone(p).envVars)
                /\ Msgs(Sub(errs, p)) = Msgs(SerAlone(p).allErrors)
                /\ Len(Sub(errs, p)) <= 1
          /\ Len(errs) = Cardinality({p \in Reached(T) : SerAlone(p).allErrors # <<>>})
    /\ (set = "ok" /\ IsRecord(T)) =>
          /\ \A p \in Visited :
                /\ Cardinality(At(lookups, p)) = 1
                /\ \A i \in At(lookups, p) :
                      /\ Msgs(Sub(setErrs, p)) = Msgs(SetAlone(p, lookups[i].key).allErrors)
                      /\ byPtr => ValueAt(dst, p) = SetAlone(p, lookups[i].key).val[1][1]
                /\ Len(Sub(setErrs, p)) <= 1
          /\ \A p \in Unaddressable : Len(Sub(setErrs, p)) = 1
          /\ Len(setErrs) = Cardinality({p \in Visited : Sub(setErrs, p) # <<>>})
                              + Cardinality(Unaddressable)

\* SetFrom records an error for one field and sets a later one.
C16_Witness ==
    /\ set = "ok"
    /\ byPtr
    /\ \E p, q \in Visited :
          /\ PathBefore(p, q)
          /\ Sub(setErrs, p) # <<>>
          /\ Sub(setErrs, q) = <<>>
          /\ ValueAt(dst, q) # ValueAt(prior, q)

-----------------------------------------------------------------------------
(* C17: the input-shape error *)

ShapeErrors(errors) ==
    {i \in DOMAIN errors : errors[i].msg = "unexpected kind, expected a struct"}

\* C17: the input-shape error is recorded at most once in a call and only for
\* the value the caller passed, never by a recursive call for an embedded or a
\* nested field.
C17_ShapeErrorAtTop ==
    /\ ser = "ok" =>
          /\ Cardinality(ShapeErrors(errs)) <= 1
          /\ \A i \in ShapeErrors(errs) : errs[i].at = <<>>
    /\ set = "ok" =>
          /\ Cardinality(ShapeErrors(setErrs)) <= 1
          /\ \A i \in ShapeErrors(setErrs) : setErrs[i].at = <<>>

-----------------------------------------------------------------------------
(* C18: pointers that are set, in StructToEnvVars *)

SetPointers ==
    {p \in Reached(T) : FieldAt(T, p).typ.kind = "Ptr" /\ ValueAt(rec, p) # <<>>}

\* StructToEnvVars on a field like the one at p whose type is the pointee's
\* and whose value is what the pointer points at.
PointeeAlone(p) ==
    StructToEnvVars(One([FieldAt(T, p) EXCEPT !.typ = Elem(@)]), <<ValueAt(rec, p)[1]>>)

\* C18: a pointer field that is not nil gets the entries, and the errors, a
\* field of the pointee's type at its place would get: the values of a scalar,
\* a duration, a byte sequence, a point in time, and one entry per child of a
\* nested record.
C18_PointerAsPointee ==
    ser = "ok" =>
        \A p \in SetPointers :
            /\ Vals(Sub(kvs, p)) = Vals(PointeeAlone(p).envVars)
            /\ Msgs(Sub(errs, p)) = Msgs(PointeeAlone(p).allErrors)

-----------------------------------------------------------------------------
(* C19: pointers in SetFrom *)

\* The pointer leaves SetFrom found the key of, the pointee being no record.
FoundPointers ==
    {p \in Visited : /\ FieldAt(T, p).typ.kind = "Ptr"
                     /\ ~IsRecord(Elem(FieldAt(T, p).typ))
                     /\ ~NotFound(p)}

\* What the pointer at p points at before the call, once it is allocated.
Pointee(p) ==
    IF ValueAt(prior, p) = <<>> THEN Zero(Elem(FieldAt(T, p).typ)) ELSE ValueAt(prior, p)[1]

\* SetFrom on a field of the pointee's type holding the pointee, asked for
\* under the key k.
SetPointeeAlone(p, k) ==
    SetFrom(env, <<>>,
            TPtr(One([FieldAt(T, p) EXCEPT !.tag = k, !.typ = Elem(@)])),
            << <<Pointee(p)>> >>)

\* C19: a pointer field whose key is found is allocated if nil, and what it
\* points at then is what the same text gives a field of the pointee's type,
\* with the same error if any: base 10 for an int, a float for a float,
\* floating-point seconds for a duration, RFC 3339 for a point in time.
C19_PointerParse ==
    (set = "ok" /\ byPtr /\ IsRecord(T)) =>
        \A p \in FoundPointers :
            \A i \in At(lookups, p) :
                /\ ValueAt(dst, p) = <<SetPointeeAlone(p, lookups[i].key).val[1][1]>>
                /\ Msgs(Sub(setErrs, p)) = Msgs(SetPointeeAlone(p, lookups[i].key).allErrors)

-----------------------------------------------------------------------------
(* C20: the width of integer fields *)

IsSigned(t) == t.kind \in {"Int", "Int8", "Int16", "Int32", "Int64"}
IsUnsigned(t) == t.kind \in {"Uint", "Uint8", "Uint16", "Uint32", "Uint64"}

\* The integer leaves that are no duration and that SetFrom can set.
IntegerFields ==
    {p \in Visited : /\ IsSigned(FieldAt(T, p).typ) \/ IsUnsigned(FieldAt(T, p).typ)
                     /\ FieldAt(T, p).typ # TDuration
                     /\ FieldAt(T, p).exp}

\* Base-10 text and the number it denotes.
IsBase10(s) == AllDigits(StripSign(s))
Base10(s) == IF IsNeg(s) THEN -DigitsVal(StripSign(s)) ELSE DigitsVal(StripSign(s))

\* The range of the type; the numbers of the model are inside every width above 16.
InRange(t, n) ==
    CASE Bits(t) > 16 -> IsSigned(t) \/ n >= 0
      [] IsSigned(t) -> -(2 ^ (Bits(t) - 1)) <= n /\ n <= 2 ^ (Bits(t) - 1) - 1
      [] OTHER -> 0 <= n /\ n <= 2 ^ Bits(t) - 1

\* C20: an integer field that is no duration, signed or unsigned, whose key is
\* found with base-10 text is set to the number when it is inside the range of
\* the field's width, with no error, and is left as it was, with one error,
\* when it is outside.
C20_IntegerWidth ==
    (set = "ok" /\ byPtr /\ IsRecord(T)) =>
        \A p \in IntegerFields :
            \A i \in At(lookups, p) :
                (lookups[i].found /\ IsBase10(env[lookups[i].key])) =>
                    IF InRange(FieldAt(T, p).typ, Base10(env[lookups[i].key]))
                    THEN /\ ValueAt(dst, p) = Base10(env[lookups[i].key])
                         /\ Sub(setErrs, p) = <<>>
                    ELSE /\ ValueAt(dst, p) = ValueAt(prior, p)
                         /\ Len(Sub(setErrs, p)) = 1

-----------------------------------------------------------------------------
(* C21: fields that are not exported *)

\* The outermost fields that are not exported, among those the walk comes to.
Unexported ==
    {p \in FieldPaths(T) : /\ ~FieldAt(T, p).exp
                           /\ ~ExcludedOnPath(T, p)
                           /\ \A q \in Ancestors(p) : FieldAt(T, q).exp}

\* The leaves that are not below a field that is not exported.
Exported == {p \in Reached(T) : \A q \in Steps(p) : FieldAt(T, q).exp}

\* The entries or errors of the field at p and of the fields below it.
Under(entries, p) == {i \in DOMAIN entries : HasPrefix(entries[i].at, p)}

\* C21: StructToEnvVars returns for every record: a field that is not
\* exported, of whatever kind, gets the error "can't interface" or neither
\* entry nor error, and every other leaf gets the entry and the error it gets
\* alone.
C21_NoAbort ==
    (ser # "no" /\ IsRecord(T)) =>
        /\ ser = "ok"
        /\ \A p \in Unexported :
              \/ Msgs(Sub(errs, p)) = <<"can't interface">>
              \/ Under(kvs, p) = {} /\ Under(errs, p) = {}
        /\ \A p \in Exported :
              /\ Vals(Sub(kvs, p)) = Vals(SerAlone(p).envVars)
              /\ Msgs(Sub(errs, p)) = Msgs(SerAlone(p).allErrors)

-----------------------------------------------------------------------------
(* C22: SplitByCase partitions its input *)

\* Well-formed UTF-8, as far as the bytes of the model go: every byte at or
\* above 0x80 is part of a whole encoding of U+FFFD.
RECURSIVE WellFormed(_)
WellFormed(s) ==
    \/ s = <<>>
    \/ /\ HasPrefix(s, RuneErrorBytes)
       /\ WellFormed(SubSeq(s, Len(RuneErrorBytes) + 1, Len(s)))
    \/ /\ s # <<>>
       /\ s[1] \notin Range(RuneErrorBytes)
       /\ WellFormed(Tail(s))

\* C22, for well-formed UTF-8: the words SplitByCase gives a non-empty string
\* that is well-formed UTF-8 are none of them empty and, put one after the
\* other, are the string itself, byte for byte.
C22_PartitionWellFormed ==
    (fn = "SplitByCase" /\ arg # <<>> /\ WellFormed(arg)) =>
        /\ Concat(ret) = arg
        /\ \A k \in DOMAIN ret : ret[k] # <<>>

\* A string with a character of three bytes, cut in two words.
C22_Witness ==
    /\ fn = "SplitByCase"
    /\ arg = RuneErrorBytes \o <<"B", "a">>
    /\ ret = <<RuneErrorBytes, <<"B", "a">> >>

\* C22: the words SplitByCase gives a non-empty string, any string, are none
\* of them empty and, put one after the other, are the string itself, byte
\* for byte.
C22_Partition ==
    (fn = "SplitByCase" /\ arg # <<>>) =>
        /\ Concat(ret) = arg
        /\ \A k \in DOMAIN ret : ret[k] # <<>>

====
